---- MODULE Spec2Model ----
(***************************************************************************)
(* song2meaning: the analysis caching and sharing layer.                   *)
(*                                                                         *)
(* The model follows the code at the granularity of the JavaScript event   *)
(* loop: one action is one run-to-completion slice of a handler, from one  *)
(* suspension point (a network await, a timer) to the next.                *)
(*                                                                         *)
(*   rate limiter      lib/rateLimiter.ts    (src/unnamed/part_003)        *)
(*   circuit breaker   lib/errorHandling.ts                                *)
(*   cache, dedup      lib/performance.ts    (src/unnamed/part_005)        *)
(*   analyzeSong       lib/songAnalysis.ts   (src/unnamed/part_007)        *)
(*   persistent store  lib/database.ts       (src/unnamed/part_010)        *)
(*   share ids         lib/shareUtils.ts     (src/unnamed/part_011)        *)
(*   POST /api/analyze app/api/analyze/route.ts (src/unnamed/part_014)     *)
(***************************************************************************)
EXTENDS Integers, Sequences, FiniteSets, TLC

(***************************************************************************)
(* Bounds of the model.  Times are in abstract clock units; the limits of  *)
(* the program (5 requests per window, 5 failures, 200 cache entries) are  *)
(* scaled down so that every limit is reached within the bounds.           *)
(***************************************************************************)
MaxTime == 2

maxRequests == 1

windowMs == 1

failureThreshold == 1

recoveryTimeout == 1

maxSize == 2

defaultTTL == 1

maxRetries == 1

NumRequests == 2

MaxExec == 4

configMaxRetries == 1

MaxGets == 3

NumCallers == 3

minShareIdLength == 16

MaxLen == 4

MaxKeyLen == 2

VARIABLES
  now,              \* Date.now()
  requests,         \* IPRateLimiter.requests : identity -> {count, resetTime}
  breaker,          \* CircuitBreaker {failures, lastFailureTime, state}
  cache,            \* AdvancedCache.cache, in Map insertion order
  pendingRequests,  \* RequestDeduplicator.pendingRequests : key -> operation
  ops,              \* the deduplicated operations (promises) created so far
  db,               \* rows of table song_analyses, in insertion order
  req,              \* the POST /api/analyze requests and where each one stands
  execs,            \* circuitBreaker.execute calls of the breaker specification
  ev,               \* the handler slice that ran last
  lastCheck,        \* value returned by the last checkLimit
  lastStatus,       \* value returned by the last getStatus
  winStart,         \* history: time of the first checkLimit call of the window
  winCalls,         \* history: checkLimit calls in the window so far
  everDenied,       \* history: identities that were denied at least once
  consecFail,       \* history: executed operations that failed in a row
  gemini,           \* one analysis at the level of GeminiClient's HTTP requests
  stats,            \* AdvancedCache.stats
  dbCalls,          \* calls of the functions of lib/database.ts
  hits,             \* history: acknowledged hits of each row, by row id
  strings           \* argument and results of the string functions

vars == <<now, requests, breaker, cache, pendingRequests, ops, db, req, execs,
          ev, lastCheck, lastStatus, winStart, winCalls, everDenied, consecFail,
          gemini, stats, dbCalls, hits, strings>>

unitVars == <<stats, dbCalls, hits, strings>>

rlVars == <<requests, lastCheck, lastStatus, winStart, winCalls, everDenied>>

cbVars == <<breaker, execs, consecFail>>

appVars == <<cache, pendingRequests, ops, db, req>>

(***************************************************************************)
(* Strings are sequences of one-character strings.                         *)
(***************************************************************************)
Upper == {"Q", "B"}

Lower == {"q", "b", "x"}

Digits == {"2"}

Space == " "

toLowerChar(c) ==
  CASE c = "Q" -> "q"
    [] c = "B" -> "b"
    [] OTHER -> c

toLowerCase(s) == [i \in 1..Len(s) |-> toLowerChar(s[i])]

RECURSIVE trimStart(_)
trimStart(s) ==
  IF s # <<>> /\ Head(s) = Space THEN trimStart(Tail(s)) ELSE s

RECURSIVE trimEnd(_)
trimEnd(s) ==
  IF s # <<>> /\ s[Len(s)] = Space THEN trimEnd(SubSeq(s, 1, Len(s) - 1)) ELSE s

trimOnce(s) ==
  LET a == IF s # <<>> /\ Head(s) = Space THEN Tail(s) ELSE s
  IN IF a # <<>> /\ a[Len(a)] = Space THEN SubSeq(a, 1, Len(a) - 1) ELSE a

\* String.prototype.trim
trim(s) == trimEnd(trimStart(s))

\* database.ts normalizeKey: text.toLowerCase().trim()
normalizeKey(text) == trim(toLowerCase(text))

\* songAnalysis.ts getCacheKey:
\*   `${artist.toLowerCase().trim()}-${songTitle.toLowerCase().trim()}`
getCacheKey(artist, songTitle) ==
  trim(toLowerCase(artist)) \o <<"-">> \o trim(toLowerCase(songTitle))


(***************************************************************************)
(* Maps (JavaScript Map objects): functions whose domain is the key set.   *)
(***************************************************************************)
EmptyMap == [k \in {} |-> TRUE]

MapSet(m, k, v) == [x \in (DOMAIN m) \cup {k} |-> IF x = k THEN v ELSE m[x]]

MapDeleteKeeps(m, k) == m

\* Map.delete(key)
MapDelete(m, k) == [x \in (DOMAIN m) \ {k} |-> m[x]]

(***************************************************************************)
(* Rate limiter (IPRateLimiter, instance songAnalysisRateLimit).           *)
(***************************************************************************)
IPs == {"::1", "127.0.0.1", "::ffff:10.0.0.7"}

\* getClientIP yields the address taken from the request headers; the
\* requests of the model carry that address in their ip field.
normalizeIP(ip) ==
  CASE ip = "::ffff:10.0.0.7" -> "10.0.0.7"
    [] ip \in {"::1", "127.0.0.1", "localhost"} -> "127.0.0.1"
    [] OTHER -> ip

\* the addresses of the clients of POST /api/analyze
ClientIPs == {"::1", "::ffff:10.0.0.7"}

Identities == {normalizeIP(ip) : ip \in IPs}

skipSuccessfulRequests == FALSE

\* the window test of checkLimit and getStatus: no data or window expired
windowExpired(reqs, key, t) ==
  key \notin DOMAIN reqs \/ t >= reqs[key].resetTime

limitExceededOff(count) == count > maxRequests

\* checkLimit, line 58: requestData.count >= this.config.maxRequests
limitExceeded(count) == count >= maxRequests

checkLimitCountsDenied(reqs, ip, t) ==
  LET key == normalizeIP(ip)
      fresh == windowExpired(reqs, key, t)
      requestData == IF fresh THEN [count |-> 0, resetTime |-> t + windowMs]
                     ELSE reqs[key]
  IN [requests |-> MapSet(reqs, key, [requestData EXCEPT !.count = @ + 1]),
      result |-> IF limitExceeded(requestData.count)
                   THEN [allowed |-> FALSE, remaining |-> 0,
                         resetTime |-> requestData.resetTime]
                   ELSE [allowed |-> TRUE,
                         remaining |-> maxRequests - (requestData.count + 1),
                         resetTime |-> requestData.resetTime]]

\* checkLimit(ip) at time t: the new map and the returned RateLimitResult
checkLimit(reqs, ip, t) ==
  LET key == normalizeIP(ip)
      fresh == windowExpired(reqs, key, t)
      requestData == IF fresh THEN [count |-> 0, resetTime |-> t + windowMs]
                     ELSE reqs[key]
      stored == IF fresh THEN MapSet(reqs, key, requestData) ELSE reqs
  IN IF limitExceeded(requestData.count)
       THEN [requests |-> stored,
             result |-> [allowed |-> FALSE, remaining |-> 0,
                         resetTime |-> requestData.resetTime]]
       ELSE [requests |-> MapSet(stored, key,
                                 [requestData EXCEPT !.count = @ + 1]),
             result |-> [allowed |-> TRUE,
                         remaining |-> maxRequests - (requestData.count + 1),
                         resetTime |-> requestData.resetTime]]

\* recordRequest(ip, success)
recordRequest(reqs, ip, success) ==
  LET key == normalizeIP(ip)
  IN IF skipSuccessfulRequests /\ success /\ key \in DOMAIN reqs
        /\ reqs[key].count > 0
       THEN MapSet(reqs, key, [reqs[key] EXCEPT !.count = @ - 1])
       ELSE reqs

getStatusLazyReset(reqs, ip, t) ==
  LET key == normalizeIP(ip)
  IN IF windowExpired(reqs, key, t)
       THEN [requests |-> MapSet(reqs, key,
                                 [count |-> 0, resetTime |-> t + windowMs]),
             result |-> [count |-> 0, remaining |-> maxRequests,
                         resetTime |-> t + windowMs]]
       ELSE [requests |-> reqs,
             result |-> [count |-> reqs[key].count,
                         remaining |-> IF maxRequests - reqs[key].count > 0
                                       THEN maxRequests - reqs[key].count
                                       ELSE 0,
                         resetTime |-> reqs[key].resetTime]]

\* getStatus(ip) at time t: the map afterwards and the returned status
getStatus(reqs, ip, t) ==
  LET key == normalizeIP(ip)
  IN IF windowExpired(reqs, key, t)
       THEN [requests |-> reqs,
             result |-> [count |-> 0, remaining |-> maxRequests,
                         resetTime |-> t + windowMs]]
       ELSE [requests |-> reqs,
             result |-> [count |-> reqs[key].count,
                         remaining |-> IF maxRequests - reqs[key].count > 0
                                       THEN maxRequests - reqs[key].count
                                       ELSE 0,
                         resetTime |-> reqs[key].resetTime]]

\* cleanup(): the five-minute interval timer of the constructor
cleanup(reqs, t) ==
  [k \in {x \in DOMAIN reqs : ~(t >= reqs[x].resetTime)} |-> reqs[k]]

(***************************************************************************)
(* History of the limiter.  A window of an identity starts with its first  *)
(* checkLimit call and with the first call at or after windowMs from the   *)
(* start of the previous window.                                           *)
(***************************************************************************)
NoWindow == 0 - 1

NewWindow(id, t) == winStart[id] = NoWindow \/ t >= winStart[id] + windowMs

NoteCheck(ip, t, result) ==
  LET id == normalizeIP(ip)
      calls == IF NewWindow(id, t) THEN 1
               ELSE IF winCalls[id] > maxRequests THEN winCalls[id]
               ELSE winCalls[id] + 1
  IN /\ winStart' = [winStart EXCEPT ![id] = IF NewWindow(id, t) THEN t ELSE @]
     /\ winCalls' = [winCalls EXCEPT ![id] = calls]
     /\ everDenied' = IF result.allowed THEN everDenied
                      ELSE everDenied \cup {id}
     /\ lastCheck' = [id |-> id, allowed |-> result.allowed,
                      remaining |-> result.remaining,
                      resetTime |-> result.resetTime]

(***************************************************************************)
(* Circuit breaker (CircuitBreaker, instance globalCircuitBreaker).        *)
(***************************************************************************)
executeCountsRejected(b, t) ==
  IF b.state = "OPEN"
    THEN IF t - b.lastFailureTime > recoveryTimeout
           THEN [breaker |-> [b EXCEPT !.state = "HALF_OPEN"], admitted |-> TRUE]
           ELSE [breaker |-> [b EXCEPT !.failures = @ + 1,
                                       !.lastFailureTime = t],
                 admitted |-> FALSE]
    ELSE [breaker |-> b, admitted |-> TRUE]

\* execute, lines 33-39: the breaker afterwards and whether the operation
\* is invoked
execute(b, t) ==
  IF b.state = "OPEN"
    THEN IF t - b.lastFailureTime > recoveryTimeout
           THEN [breaker |-> [b EXCEPT !.state = "HALF_OPEN"], admitted |-> TRUE]
           ELSE [breaker |-> b, admitted |-> FALSE]
    ELSE [breaker |-> b, admitted |-> TRUE]

onSuccessKeepsState(b) == [b EXCEPT !.failures = 0]

onSuccess(b) == [b EXCEPT !.failures = 0, !.state = "CLOSED"]

onFailureNeverOpens(b, t) ==
  [b EXCEPT !.failures = b.failures + 1, !.lastFailureTime = t]

onFailureTwice(b, t) ==
  [failures |-> b.failures + 2,
   lastFailureTime |-> t,
   state |-> IF b.failures + 2 >= failureThreshold THEN "OPEN" ELSE b.state]

\* onFailure, lines 56-63
onFailure(b, t) ==
  [failures |-> b.failures + 1,
   lastFailureTime |-> t,
   state |-> IF b.failures + 1 >= failureThreshold THEN "OPEN" ELSE b.state]

NoteOutcome(ok) ==
  consecFail' = IF ok THEN 0
                ELSE IF consecFail >= failureThreshold THEN consecFail
                ELSE consecFail + 1


(***************************************************************************)
(* Share ids (shareUtils.ts).                                              *)
(***************************************************************************)
RECURSIVE dropWhile(_, _)
dropWhile(s, F) ==
  IF s # <<>> /\ Head(s) \in F THEN dropWhile(Tail(s), F) ELSE s

\* s.replace(/F+/g, t): every maximal run of characters of F becomes t
RECURSIVE replaceRuns(_, _, _)
replaceRuns(s, F, t) ==
  IF s = <<>> THEN <<>>
  ELSE IF Head(s) \in F
         THEN <<t>> \o replaceRuns(dropWhile(Tail(s), F), F, t)
         ELSE <<Head(s)>> \o replaceRuns(Tail(s), F, t)

\* s.replace(/^-|-$/g, '')
stripEdgeHyphens(s) ==
  LET a == IF s # <<>> /\ Head(s) = "-" THEN Tail(s) ELSE s
  IN IF a # <<>> /\ a[Len(a)] = "-" THEN SubSeq(a, 1, Len(a) - 1) ELSE a

SlugChars == Lower \cup Digits \cup {"-"}

generateShareId(artist, songTitle) ==
  LET combined == artist \o <<Space>> \o songTitle
      kept == SelectSeq(toLowerCase(combined),
                        LAMBDA c : c \in SlugChars \cup {Space})
      shareId == stripEdgeHyphens(
                   replaceRuns(replaceRuns(kept, {Space}, "-"), {"-"}, "-"))
  IN IF Len(shareId) > 100
       THEN LET cut == SubSeq(shareId, 1, 100)
            IN IF cut[100] = "-" THEN SubSeq(cut, 1, 99) ELSE cut
       ELSE shareId

isValidShareId(shareId) ==
  /\ shareId # <<>>
  /\ \/ /\ \A i \in 1..Len(shareId) : shareId[i] \in SlugChars
        /\ Len(shareId) >= 3 /\ Len(shareId) <= 100
        /\ Head(shareId) # "-" /\ shareId[Len(shareId)] # "-"
     \/ /\ \A i \in 1..Len(shareId) :
             shareId[i] \in Lower \cup Upper \cup Digits \cup {"_", "-"}
        /\ Len(shareId) >= 10 /\ Len(shareId) <= 30

(***************************************************************************)
(* Error classification (errorHandling.ts classifyError).  The messages    *)
(* are the ones the upstream path can throw; Words(m) is the set of probe  *)
(* substrings of classifyError that message m contains.                    *)
(***************************************************************************)
TimedOutMsg == "AI analysis request timed out"

Http401Msg == "Gemini API error: 401 Unauthorized"

Http500Msg == "Gemini API error: 500 Internal Server Error"

BreakerOpenMsg == "Service temporarily unavailable. Please try again later."

Http429Msg == "Gemini API error: 429 Too Many Requests"

FetchAbortMsg == "Request timeout - please try again"

NoCandidatesMsg == "No response generated from Gemini AI"

UpstreamErrors == {TimedOutMsg, Http401Msg, Http500Msg}

Words(m) ==
  CASE m = TimedOutMsg -> {}
    [] m = Http401Msg -> {"401", "Gemini"}
    [] m = Http500Msg -> {"500", "Gemini"}
    [] m = BreakerOpenMsg -> {}
    [] m = Http429Msg -> {"429", "Gemini"}
    [] m = FetchAbortMsg -> {"timeout"}
    [] m = NoCandidatesMsg -> {"Gemini"}
    [] OTHER -> {}

\* classifyError on a plain Error with message m: the APIError's code and
\* whether it is retryable
classifyError(m) ==
  LET w == Words(m)
  IN IF "fetch" \in w \/ "network" \in w
       THEN [code |-> "NETWORK_ERROR", retryable |-> TRUE]
     ELSE IF "timeout" \in w \/ "AbortError" \in w
       THEN [code |-> "TIMEOUT_ERROR", retryable |-> TRUE]
     ELSE IF "429" \in w \/ "rate limit" \in w
       THEN [code |-> "RATE_LIMIT_ERROR", retryable |-> TRUE]
     ELSE IF "API key" \in w \/ "401" \in w
       THEN [code |-> "AUTH_ERROR", retryable |-> FALSE]
     ELSE IF "500" \in w \/ "502" \in w \/ "503" \in w
       THEN [code |-> "SERVER_ERROR", retryable |-> TRUE]
     ELSE IF "Gemini" \in w
       THEN [code |-> "AI_SERVICE_ERROR", retryable |-> TRUE]
     ELSE [code |-> "UNKNOWN_ERROR", retryable |-> TRUE]

\* analyzeSong, line 151: the codes answered with the fallback analysis
fallbackEligible(code) == code \in {"TIMEOUT_ERROR", "SERVER_ERROR"}

(***************************************************************************)
(* In-memory cache (AdvancedCache, instance analysisCache).  The Map is a  *)
(* sequence of entries in insertion order, at most one entry per key.      *)
(***************************************************************************)
cacheSize(c) == Len(c)

cacheIndex(c, key) ==
  IF \E i \in 1..Len(c) : c[i].key = key
    THEN CHOOSE i \in 1..Len(c) : c[i].key = key
    ELSE 0

removeAt(c, i) == SubSeq(c, 1, i - 1) \o SubSeq(c, i + 1, Len(c))

isExpiredLate(e, t) == t - e.timestamp > e.ttl + 1

\* get, has and evictExpired: Date.now() - entry.timestamp > entry.ttl
isExpired(e, t) == t - e.timestamp > e.ttl

evictExpired(c, t) == SelectSeq(c, LAMBDA e : ~isExpired(e, t))

\* evictLRU: the first entry, in iteration order, with the least
\* lastAccessed below Date.now(); nothing when there is none
evictLRU(c, t) ==
  LET older == {i \in 1..Len(c) : c[i].lastAccessed < t}
  IN IF older = {} THEN c
     ELSE LET least == CHOOSE i \in older :
                         \A j \in older :
                           \/ c[i].lastAccessed < c[j].lastAccessed
                           \/ c[i].lastAccessed = c[j].lastAccessed /\ i <= j
          IN removeAt(c, least)

cacheSet(c, key, value, ttl, t) ==
  LET purged == IF Len(c) >= maxSize THEN evictExpired(c, t) ELSE c
      room == IF Len(c) >= maxSize /\ Len(purged) >= maxSize
                THEN evictLRU(purged, t) ELSE purged
      entry == [key |-> key, data |-> value, timestamp |-> t, ttl |-> ttl,
                accessCount |-> 0, lastAccessed |-> t]
      i == cacheIndex(room, key)
  IN IF i = 0 THEN Append(room, entry) ELSE [room EXCEPT ![i] = entry]

NoData == [artist |-> <<>>, songTitle |-> <<>>, gen |-> 0 - 1]

\* get(key) at time t: the cache afterwards and the returned data (NoData
\* for null)
cacheGet(c, key, t) ==
  LET i == cacheIndex(c, key)
  IN IF i = 0 THEN [cache |-> c, data |-> NoData]
     ELSE IF isExpired(c[i], t) THEN [cache |-> removeAt(c, i), data |-> NoData]
     ELSE [cache |-> [c EXCEPT ![i].accessCount = @ + 1,
                                ![i].lastAccessed = t],
           data |-> c[i].data]

\* has(key) at time t: the cache afterwards and the returned boolean
cacheHas(c, key, t) ==
  LET i == cacheIndex(c, key)
  IN IF i = 0 THEN [cache |-> c, found |-> FALSE]
     ELSE IF isExpired(c[i], t) THEN [cache |-> removeAt(c, i), found |-> FALSE]
     ELSE [cache |-> c, found |-> TRUE]

cacheDelete(c, key) ==
  LET i == cacheIndex(c, key)
  IN IF i = 0 THEN c ELSE removeAt(c, i)

resetStats == [totalRequests |-> 0, totalHits |-> 0, totalMisses |-> 0]

\* get(key) at time t: the counters afterwards
countGet(st, c, key, t) ==
  LET i == cacheIndex(c, key)
      counted == [st EXCEPT !.totalRequests = @ + 1]
  IN IF i = 0 THEN [counted EXCEPT !.totalMisses = @ + 1]
     ELSE IF isExpired(c[i], t) THEN [counted EXCEPT !.totalMisses = @ + 1]
     ELSE [counted EXCEPT !.totalHits = @ + 1]

RECURSIVE cacheSetTimes(_, _, _, _, _)
cacheSetTimes(c, key, value, t, n) ==
  IF n = 0 THEN c
  ELSE cacheSetTimes(cacheSet(c, key, value, defaultTTL, t), key, value, t, n - 1)


(***************************************************************************)
(* Request deduplicator (RequestDeduplicator, instance requestDeduplicator)*)
(***************************************************************************)
pendingForIgnored(pend, key) == 0

\* deduplicate, lines 191-193: the pending operation of the key, 0 for none
pendingFor(pend, key) == IF key \in DOMAIN pend THEN pend[key] ELSE 0

(***************************************************************************)
(* State of the application.                                               *)
(***************************************************************************)
Req == 1..NumRequests

\* the (artist, songTitle) pairs parseSearchQuery hands to the handlers
Songs == { [artist |-> <<"Q">>, songTitle |-> <<"B">>],
           [artist |-> <<"q">>, songTitle |-> <<"b">>],
           [artist |-> <<"q">>, songTitle |-> <<"b", "!">>],
           [artist |-> <<"x">>, songTitle |-> <<"!">>] }

NoShare == <<>>

IdleRequest ==
  [pc |-> "idle", ip |-> "", artist |-> <<>>, songTitle |-> <<>>,
   op |-> 0, rowId |-> 0, rowCount |-> 0, lookup |-> "none",
   fresh |-> NoData, fallback |-> FALSE, storeRes |-> "none",
   status |-> 0, success |-> FALSE, fromCache |-> FALSE, shareId |-> NoShare,
   data |-> NoData,
   \* history of the request
   consumed |-> FALSE, recordAtStart |-> FALSE, dbReads |-> 0, dbWrites |-> 0,
   found |-> FALSE, memAccess |-> FALSE, memHit |-> FALSE, started |-> FALSE,
   joined |-> FALSE, inFlight |-> 0, conflict |-> "none",
   recv |-> [settled |-> FALSE, ok |-> FALSE, gen |-> 0, code |-> ""]]

NoOp ==
  [status |-> "none", attempt |-> 0, key |-> <<>>, artist |-> <<>>,
   songTitle |-> <<>>, code |-> "", calls |-> 0,
   \* history of the operation
   retryable |-> TRUE, timedOut |-> 0]

IdleGemini ==
  [pc |-> "idle", attempt |-> 0, stage |-> "none", retryCount |-> 0,
   result |-> "none",
   \* the generateWithGrounding calls withTimeout gave up on, in the order
   \* they were given up on: Promise.race settles, the call runs on
   abandoned |-> <<>>,
   \* history of the analysis
   fetches |-> 0, only401 |-> TRUE]

Callers == 1..NumCallers

NoResult ==
  [success |-> FALSE, error |-> "", threw |-> FALSE, hasData |-> FALSE,
   data |-> NoData, shareId |-> NoShare, accessCount |-> 0, deleted |-> 0,
   status |-> 0]

IdleCall ==
  [pc |-> "idle", fn |-> "", viaRoute |-> FALSE, artist |-> <<>>,
   songTitle |-> <<>>, shareId |-> NoShare, analysisData |-> NoData,
   rowId |-> 0, rowCount |-> 0, cutoff |-> 0, minAccessCount |-> 0,
   res |-> NoResult,
   \* history of the call
   trouble |-> "none", noRow |-> FALSE, refused |-> FALSE, startRow |-> 0]

NoText == [pc |-> "none", a |-> <<>>, b |-> <<>>, na |-> <<>>, nb |-> <<>>,
           nna |-> <<>>]

InitialBreaker == [failures |-> 0, lastFailureTime |-> 0, state |-> "CLOSED"]

InitState ==
  /\ now = 0
  /\ requests = EmptyMap
  /\ breaker = InitialBreaker
  /\ cache = <<>>
  /\ pendingRequests = EmptyMap
  /\ ops = [o \in Req |-> NoOp]
  /\ db = <<>>
  /\ req = [r \in Req |-> IdleRequest]
  /\ execs = [e \in 1..MaxExec |-> "none"]
  /\ ev = [type |-> "init", r |-> 0]
  /\ lastCheck = [id |-> "", allowed |-> TRUE, remaining |-> 0, resetTime |-> 0]
  /\ lastStatus = [id |-> "", count |-> 0, remaining |-> 0, resetTime |-> 0]
  /\ winStart = [id \in Identities |-> NoWindow]
  /\ winCalls = [id \in Identities |-> 0]
  /\ everDenied = {}
  /\ consecFail = 0
  /\ gemini = IdleGemini
  /\ stats = resetStats
  /\ dbCalls = [c \in Callers |-> IdleCall]
  /\ hits = <<>>

Init == InitState /\ strings = NoText

\* rows of song_analyses with the normalized key of (artist, songTitle)
rowsFor(rows, artist, songTitle) ==
  {i \in 1..Len(rows) :
     /\ rows[i].normalized_artist = normalizeKey(artist)
     /\ rows[i].normalized_title = normalizeKey(songTitle)}

\* the requests awaiting the promise of operation o
waiters(o) == {r \in Req : req[r].pc = "await" /\ req[r].op = o}

(***************************************************************************)
(* Time.                                                                   *)
(***************************************************************************)
Tick ==
  /\ now < MaxTime
  /\ now' = now + 1
  /\ UNCHANGED <<unitVars, gemini, ev, rlVars, cbVars, appVars>>

cachedResultIgnored(data) == FALSE

\* analyzeSong, line 101: if (cachedResult)
cachedResultUsable(data) == data # NoData

(***************************************************************************)
(* analyzeSong up to its first suspension: validateRequest, the cache      *)
(* lookup and, on a miss, deduplicate -> circuitBreaker.execute ->         *)
(* withRetry -> the first upstream attempt.  rq is the request's record as *)
(* the caller left it.  A cache hit resolves at once and the route goes on *)
(* to storeAnalysis.                                                       *)
(***************************************************************************)
analyzeSong(r, rq) ==
  LET cacheKey == getCacheKey(rq.artist, rq.songTitle)
      got == cacheGet(cache, cacheKey, now)
      pend == pendingFor(pendingRequests, cacheKey)
      ex == execute(breaker, now)
      me == [rq EXCEPT !.memAccess = TRUE,
                       !.memHit = got.data # NoData,
                       !.inFlight = IF got.data = NoData
                                       /\ cacheKey \in DOMAIN pendingRequests
                                      THEN pendingRequests[cacheKey] ELSE 0]
  IN /\ cache' = got.cache
     /\ stats' = countGet(stats, cache, cacheKey, now)
     /\ IF cachedResultUsable(got.data)
          THEN /\ req' = [req EXCEPT ![r] = [me EXCEPT !.pc = "store",
                                                       !.fresh = got.data]]
               /\ UNCHANGED <<pendingRequests, ops, breaker>>
        ELSE IF pend # 0
          THEN /\ req' = [req EXCEPT ![r] = [me EXCEPT !.pc = "await",
                                                       !.op = pend,
                                                       !.joined = TRUE]]
               /\ UNCHANGED <<pendingRequests, ops, breaker>>
        ELSE /\ breaker' = ex.breaker
             /\ ops' = [ops EXCEPT ![r] =
                          [status |-> IF ex.admitted THEN "attempt"
                                      ELSE "rejected",
                           attempt |-> 0, key |-> cacheKey,
                           artist |-> rq.artist, songTitle |-> rq.songTitle,
                           code |-> "",
                           calls |-> IF ex.admitted THEN 1 ELSE 0,
                           retryable |-> TRUE, timedOut |-> 0]]
             /\ pendingRequests' = MapSet(pendingRequests, cacheKey, r)
             /\ req' = [req EXCEPT ![r] = [me EXCEPT !.pc = "await",
                                                     !.op = r,
                                                     !.started = ex.admitted]]

(***************************************************************************)
(* POST /api/analyze.  The requests carry a well-formed query (a non-empty *)
(* string of at most 200 characters).                                      *)
(***************************************************************************)
rateLimitedNoReturn(rq) == [rq EXCEPT !.pc = "lookup", !.status = 429]

\* lines 24-44: the 429 answer
rateLimited(rq) == [rq EXCEPT !.pc = "done", !.status = 429]

cacheHitNever(cacheResult) == FALSE

\* line 96: cacheResult.success && cacheResult.data
cacheHit(cacheResult) == cacheResult.success /\ cacheResult.hasData

hitResponseAsFresh(rq, row) ==
  [rq EXCEPT !.pc = "done", !.lookup = "hit", !.status = 200, !.success = TRUE,
             !.fromCache = FALSE, !.shareId = row.share_id,
             !.data = row.analysis_data]

\* lines 97-100 and 188-214: the answer on a persistent-store hit
hitResponse(rq, row) ==
  [rq EXCEPT !.pc = "done", !.lookup = "hit", !.status = 200, !.success = TRUE,
             !.fromCache = TRUE, !.shareId = row.share_id,
             !.data = row.analysis_data]

storeResponseFailing(rq, stored, shareId, analysisData) ==
  IF stored
    THEN [rq EXCEPT !.pc = "done", !.storeRes = "ok", !.status = 200,
                    !.success = TRUE, !.fromCache = FALSE,
                    !.shareId = shareId, !.data = analysisData]
    ELSE [rq EXCEPT !.pc = "done", !.storeRes = "fail", !.status = 500,
                    !.success = FALSE]

\* lines 130-155 and 188-214: the answer after storeAnalysis
storeResponse(rq, stored, shareId, analysisData) ==
  [rq EXCEPT !.pc = "done", !.storeRes = IF stored THEN "ok" ELSE "fail",
             !.status = 200, !.success = TRUE, !.fromCache = FALSE,
             !.shareId = IF stored THEN shareId ELSE NoShare,
             !.data = analysisData]

\* lines 17-44 and 84-94: rate limit gate, then getCachedAnalysis is called
Post(r, ip, song) ==
  /\ req[r].pc = "idle"
  /\ IF r = 1 THEN TRUE ELSE req[r - 1].pc # "idle"
  /\ LET cl == checkLimit(requests, ip, now)
         rq == [req[r] EXCEPT !.ip = ip, !.artist = song.artist,
                              !.songTitle = song.songTitle,
                              !.consumed = cl.result.allowed,
                              !.recordAtStart =
                                 rowsFor(db, song.artist, song.songTitle) # {}]
     IN /\ requests' = cl.requests
        /\ NoteCheck(ip, now, cl.result)
        /\ req' = [req EXCEPT ![r] =
                     IF cl.result.allowed
                       THEN [rq EXCEPT !.pc = "lookup"]
                       ELSE rateLimited(rq)]
  /\ UNCHANGED <<unitVars, gemini, now, ev, lastStatus, cbVars, cache, pendingRequests, ops, db>>

\* getCachedAnalysis, lines 65-105: the select answers.  dbUp = FALSE is a
\* connectivity or query error; .single() answers PGRST116 unless exactly
\* one row matches.
Lookup(r, dbUp) ==
  /\ req[r].pc = "lookup"
  /\ LET rows == rowsFor(db, req[r].artist, req[r].songTitle)
         rq == [req[r] EXCEPT !.dbReads = @ + 1]
     IN IF dbUp /\ Cardinality(rows) = 1
          THEN LET i == CHOOSE i \in rows : TRUE
               IN /\ req' = [req EXCEPT ![r] =
                               [rq EXCEPT !.pc = "bump", !.rowId = i,
                                          !.found = TRUE,
                                          !.rowCount = db[i].access_count]]
                  /\ UNCHANGED <<stats, cache, pendingRequests, ops, breaker>>
          ELSE analyzeSong(r, [rq EXCEPT !.lookup = IF dbUp THEN "miss"
                                                    ELSE "fail"])
  /\ UNCHANGED <<dbCalls, hits, strings, gemini, now, ev, rlVars, execs,
                 consecFail, db>>

\* getCachedAnalysis, lines 107-129, and the cache-hit branch of the route:
\* the access-count update answers (its outcome is not inspected), then
\* buildShareUrl, which throws on a share id that is not well-formed
Bump(r, dbUp) ==
  /\ req[r].pc = "bump"
  /\ LET i == req[r].rowId
         rq == [req[r] EXCEPT !.dbWrites = @ + 1]
     IN /\ db' = IF dbUp
                   THEN [db EXCEPT ![i].access_count = req[r].rowCount + 1]
                   ELSE db
        /\ IF cacheHit([success |-> isValidShareId(db[i].share_id),
                         hasData |-> isValidShareId(db[i].share_id)])
             THEN /\ req' = [req EXCEPT ![r] = hitResponse(rq, db[i])]
                  /\ UNCHANGED <<stats, cache, pendingRequests, ops, breaker>>
             ELSE analyzeSong(r, [rq EXCEPT !.lookup = "fail"])
  /\ UNCHANGED <<dbCalls, hits, strings, gemini, now, ev, rlVars, execs,
                 consecFail>>


(***************************************************************************)
(* The deduplicated operation: circuitBreaker.execute(withRetry(attempt)). *)
(* When its promise settles, the breaker is updated, the finally handler   *)
(* removes the pending entry and every awaiting analyzeSong call resumes,  *)
(* all within one turn of the event loop.                                  *)
(***************************************************************************)
\* analyzeSong, lines 134-143, resumed with the operation's result, and the
\* route going on to storeAnalysis
resumeOk(rq, result) ==
  [rq EXCEPT !.pc = "store", !.fresh = result,
             !.recv = [settled |-> TRUE, ok |-> TRUE, gen |-> result.gen,
                       code |-> ""]]

\* analyzeSong, lines 145-164, resumed with a rejection classified as code,
\* and the route's lines 111-127
resumeFailed(rq, code) ==
  LET got == [settled |-> TRUE, ok |-> FALSE, gen |-> 0, code |-> code]
  IN IF fallbackEligible(code)
       THEN [rq EXCEPT !.pc = "store", !.fallback = TRUE, !.recv = got,
                       !.fresh = [artist |-> rq.artist,
                                  songTitle |-> rq.songTitle, gen |-> 0]]
       ELSE [rq EXCEPT !.pc = "done", !.status = 500, !.success = FALSE,
                       !.recv = got]

\* an upstream attempt answers and parseAnalysisResponse yields the result
AttemptOk(o) ==
  /\ ops[o].status = "attempt"
  /\ LET result == [artist |-> ops[o].artist, songTitle |-> ops[o].songTitle,
                    gen |-> o]
         w == waiters(o)
     IN /\ breaker' = onSuccess(breaker)
        /\ NoteOutcome(TRUE)
        /\ pendingRequests' = MapDelete(pendingRequests, ops[o].key)
        /\ ops' = [ops EXCEPT ![o].status = "ok"]
        /\ cache' = cacheSetTimes(cache, ops[o].key, result, now, Cardinality(w))
        /\ req' = [r \in Req |-> IF r \in w THEN resumeOk(req[r], result)
                                 ELSE req[r]]
  /\ UNCHANGED <<unitVars, gemini, now, ev, rlVars, execs, db>>

giveUpLate(apiError, attempt) ==
  ~apiError.retryable \/ attempt = maxRetries + 1

giveUpOnLastOnly(apiError, attempt) == attempt = maxRetries

\* withRetry, line 192: !apiError.retryable || attempt === maxRetries
giveUp(apiError, attempt) == ~apiError.retryable \/ attempt = maxRetries

\* an upstream attempt throws an Error with message m: withRetry, lines
\* 187-199, and on the last throw execute's catch and the finally handler
AttemptFail(o, m) ==
  /\ ops[o].status = "attempt"
  /\ LET apiError == classifyError(m)
         w == waiters(o)
         n == IF m = TimedOutMsg THEN ops[o].timedOut + 1 ELSE ops[o].timedOut
     IN IF giveUp(apiError, ops[o].attempt)
          THEN /\ breaker' = onFailure(breaker, now)
               /\ NoteOutcome(FALSE)
               /\ pendingRequests' = MapDelete(pendingRequests, ops[o].key)
               /\ ops' = [ops EXCEPT ![o].status = "failed",
                                     ![o].code = apiError.code,
                                     ![o].retryable = apiError.retryable,
                                     ![o].timedOut = n]
               /\ req' = [r \in Req |->
                            IF r \in w THEN resumeFailed(req[r], apiError.code)
                            ELSE req[r]]
          ELSE /\ ops' = [ops EXCEPT ![o].status = "sleep", ![o].timedOut = n]
               /\ UNCHANGED <<breaker, consecFail, pendingRequests, req>>
  /\ UNCHANGED <<unitVars, gemini, now, ev, rlVars, execs, cache, db>>

\* the backoff timer of withRetry fires: the next attempt starts
Retry(o) ==
  /\ ops[o].status = "sleep"
  /\ ops' = [ops EXCEPT ![o].status = "attempt", ![o].attempt = @ + 1,
                        ![o].calls = @ + 1]
  /\ UNCHANGED <<unitVars, gemini, now, ev, rlVars, cbVars, cache, pendingRequests, db, req>>

\* the rejection of an execute call refused by the open breaker reaches the
\* finally handler and the awaiting callers
Reject(o) ==
  /\ ops[o].status = "rejected"
  /\ LET code == classifyError(BreakerOpenMsg).code
         w == waiters(o)
     IN /\ pendingRequests' = MapDelete(pendingRequests, ops[o].key)
        /\ ops' = [ops EXCEPT ![o].status = "failed", ![o].code = code]
        /\ req' = [r \in Req |-> IF r \in w THEN resumeFailed(req[r], code)
                                 ELSE req[r]]
  /\ UNCHANGED <<unitVars, gemini, now, ev, rlVars, cbVars, cache, db>>

shareIdTakenNever(rows, shareId) == FALSE

\* share_id TEXT UNIQUE NOT NULL: the insert is refused when a row owns the id
shareIdTaken(rows, shareId) == \E i \in 1..Len(rows) : rows[i].share_id = shareId

\* storeAnalysis, lines 157-208, and the route's lines 134-214: the insert
\* answers.  It fails on a connectivity error (dbUp = FALSE) and on the
\* UNIQUE constraint of share_id; buildShareUrl throws after the insert when
\* the share id is not well-formed.
Store(r, dbUp) ==
  /\ req[r].pc = "store"
  /\ LET analysisData == req[r].fresh
         shareId == generateShareId(analysisData.artist, analysisData.songTitle)
         taken == shareIdTaken(db, shareId)
         sameSong == \E i \in rowsFor(db, analysisData.artist,
                                       analysisData.songTitle) :
                       db[i].share_id = shareId
         conflict == IF ~(dbUp /\ taken) THEN "none"
                     ELSE IF sameSong THEN "same" ELSE "other"
         inserted == dbUp /\ ~taken
         stored == inserted /\ isValidShareId(shareId)
         row == [id |-> Len(db) + 1, share_id |-> shareId,
                 normalized_artist |-> normalizeKey(analysisData.artist),
                 normalized_title |-> normalizeKey(analysisData.songTitle),
                 analysis_data |-> analysisData, access_count |-> 1]
     IN /\ db' = IF inserted THEN Append(db, row) ELSE db
        /\ req' = [req EXCEPT ![r] =
                     storeResponse([@ EXCEPT !.dbWrites = @ + 1,
                                              !.conflict = conflict],
                                   stored, shareId, analysisData)]
  /\ UNCHANGED <<unitVars, gemini, now, ev, rlVars, cbVars, cache, pendingRequests, ops>>

Next ==
  \/ Tick
  \/ \E r \in Req, ip \in ClientIPs, song \in Songs : Post(r, ip, song)
  \/ \E r \in Req, dbUp \in BOOLEAN : Lookup(r, dbUp)
  \/ \E r \in Req, dbUp \in BOOLEAN : Bump(r, dbUp)
  \/ \E o \in Req : AttemptOk(o)
  \/ \E o \in Req, m \in UpstreamErrors : AttemptFail(o, m)
  \/ \E o \in Req : Retry(o)
  \/ \E o \in Req : Reject(o)
  \/ \E r \in Req, dbUp \in BOOLEAN : Store(r, dbUp)

Spec == Init /\ [][Next]_vars

\* The timers and the microtask queue run: the 30-second timer of withTimeout
\* fires for an attempt that has not answered, the backoff sleep of withRetry
\* ends, and the rejection of a refused execute call is delivered.  Nothing
\* is assumed of the upstream (AttemptOk, other AttemptFail), of the
\* database or of the clients.
TimersFire ==
  \A o \in Req :
    /\ WF_vars(AttemptFail(o, TimedOutMsg))
    /\ WF_vars(Retry(o))
    /\ WF_vars(Reject(o))

\* the queries of the runs checked under TimersFire: the requests come from
\* one address, for one cache key or for two
LiveSongs == { [artist |-> <<"Q">>, songTitle |-> <<"B">>],
              [artist |-> <<"q">>, songTitle |-> <<"b">>],
              [artist |-> <<"x">>, songTitle |-> <<"!">>] }

NextLive ==
  \/ Tick
  \/ \E r \in Req, ip \in {"::1"}, song \in LiveSongs : Post(r, ip, song)
  \/ \E r \in Req, dbUp \in BOOLEAN : Lookup(r, dbUp)
  \/ \E r \in Req, dbUp \in BOOLEAN : Bump(r, dbUp)
  \/ \E o \in Req : AttemptOk(o)
  \/ \E o \in Req, m \in UpstreamErrors : AttemptFail(o, m)
  \/ \E o \in Req : Retry(o)
  \/ \E o \in Req : Reject(o)
  \/ \E r \in Req, dbUp \in BOOLEAN : Store(r, dbUp)

SpecLive == Init /\ [][NextLive]_vars /\ TimersFire

(***************************************************************************)
(* The rate limiter on its own: checkLimit, getStatus (GET /api/rate-limit *)
(* and the analyze route), recordRequest and the cleanup timer, called at  *)
(* any times for any addresses.                                            *)
(***************************************************************************)
CheckLimit(ip) ==
  /\ LET cl == checkLimit(requests, ip, now)
     IN /\ requests' = cl.requests
        /\ NoteCheck(ip, now, cl.result)
  /\ ev' = [type |-> "checkLimit", r |-> 0]
  /\ UNCHANGED <<unitVars, gemini, now, lastStatus, cbVars, appVars>>

GetStatus(ip) ==
  /\ LET st == getStatus(requests, ip, now)
     IN /\ requests' = st.requests
        /\ lastStatus' = [id |-> normalizeIP(ip), count |-> st.result.count,
                          remaining |-> st.result.remaining,
                          resetTime |-> st.result.resetTime]
  /\ ev' = [type |-> "getStatus", r |-> 0]
  /\ UNCHANGED <<unitVars, gemini, now, lastCheck, winStart, winCalls, everDenied, cbVars, appVars>>

RecordRequest(ip, success) ==
  /\ requests' = recordRequest(requests, ip, success)
  /\ ev' = [type |-> "recordRequest", r |-> 0]
  /\ UNCHANGED <<unitVars, gemini, now, lastCheck, lastStatus, winStart, winCalls, everDenied,
                 cbVars, appVars>>

Cleanup ==
  /\ requests' = cleanup(requests, now)
  /\ ev' = [type |-> "cleanup", r |-> 0]
  /\ UNCHANGED <<unitVars, gemini, now, lastCheck, lastStatus, winStart, winCalls, everDenied,
                 cbVars, appVars>>

NextLimiter ==
  \/ Tick
  \/ \E ip \in IPs : CheckLimit(ip)
  \/ \E ip \in IPs : GetStatus(ip)
  \/ \E ip \in IPs, success \in BOOLEAN : RecordRequest(ip, success)
  \/ Cleanup

SpecLimiter == Init /\ [][NextLimiter]_vars

(***************************************************************************)
(* The circuit breaker on its own: execute calls with operations that      *)
(* succeed or fail at any later time, several of them in flight at once.   *)
(***************************************************************************)
\* the operation of call e is the one execute admitted on leaving OPEN, and
\* the breaker is HALF_OPEN still
halfOpenTrial(e) == execs[e] = "trial" /\ breaker.state = "HALF_OPEN"

Execute(e) ==
  /\ execs[e] = "none"
  /\ IF e = 1 THEN TRUE ELSE execs[e - 1] # "none"
  /\ LET ex == execute(breaker, now)
     IN /\ breaker' = ex.breaker
        /\ execs' = [execs EXCEPT ![e] =
                      IF ~ex.admitted THEN "rejected"
                      ELSE IF breaker.state = "OPEN" THEN "trial"
                      ELSE "running"]
  /\ ev' = [type |-> "execute", r |-> e]
  /\ UNCHANGED <<unitVars, gemini, now, consecFail, rlVars, appVars>>

OperationOk(e) ==
  /\ execs[e] \in {"running", "trial"}
  /\ breaker' = onSuccess(breaker)
  /\ execs' = [execs EXCEPT ![e] = "ok"]
  /\ NoteOutcome(TRUE)
  /\ ev' = [type |-> IF halfOpenTrial(e) THEN "trialOk" ELSE "operationOk",
            r |-> e]
  /\ UNCHANGED <<unitVars, gemini, now, rlVars, appVars>>

OperationFail(e) ==
  /\ execs[e] \in {"running", "trial"}
  /\ breaker' = onFailure(breaker, now)
  /\ execs' = [execs EXCEPT ![e] = "failed"]
  /\ NoteOutcome(FALSE)
  /\ ev' = [type |-> IF halfOpenTrial(e) THEN "trialFail" ELSE "operationFail",
            r |-> e]
  /\ UNCHANGED <<unitVars, gemini, now, rlVars, appVars>>

NextBreaker ==
  \/ Tick
  \/ \E e \in 1..MaxExec : Execute(e)
  \/ \E e \in 1..MaxExec : OperationOk(e)
  \/ \E e \in 1..MaxExec : OperationFail(e)

SpecBreaker == Init /\ [][NextBreaker]_vars


(***************************************************************************)
(* One analysis at the level of the HTTP requests GeminiClient sends: the  *)
(* operation analyzeSong hands to withRetry is                             *)
(* withTimeout(client.generateWithGrounding(prompt), 30000, ...), and      *)
(* generateWithGrounding and generateContent each run makeRequest, which   *)
(* retries on its own.  A makeRequest level that retries returns the inner *)
(* call's promise, so an error of a deeper level passes the outer levels   *)
(* unhandled: the chain is a loop over retryCount.                         *)
(***************************************************************************)
\* what one fetch can end with: a well-formed 200, a 200 without candidates,
\* the AbortController's abort, or a non-ok status
Responses == {"ok", "empty", "abort", "401", "429", "500"}

\* makeRequest, line 295: the Error thrown for a non-ok status
statusMsg(resp) ==
  CASE resp = "401" -> Http401Msg
    [] resp = "429" -> Http429Msg
    [] OTHER -> Http500Msg

\* a new fetch is sent
fetchAgain(g) == [g EXCEPT !.pc = "fetch", !.fetches = @ + 1]

\* withRetry's catch for an attempt that threw an Error with message m
withRetryCatch(g, m) ==
  LET apiError == classifyError(m)
  IN IF giveUp(apiError, g.attempt)
       THEN [g EXCEPT !.pc = "done", !.result = apiError.code]
       ELSE [g EXCEPT !.pc = "retrySleep"]

\* the makeRequest chain of the running generate call threw m:
\* generateWithGrounding falls back to generateContent, whose error reaches
\* withRetry
generateThrows(g, m) ==
  IF g.stage = "grounding"
    THEN fetchAgain([g EXCEPT !.stage = "content", !.retryCount = 0])
    ELSE withRetryCatch(g, m)

\* makeRequest, lines 288 and 306: retryCount < this.config.maxRetries
retryAllowed(retryCount) == retryCount < configMaxRetries

\* makeRequest when its fetch ends with resp
makeRequest(g, resp) ==
  CASE resp = "ok" -> [g EXCEPT !.pc = "done", !.result = "ok"]
    [] resp = "empty" -> generateThrows(g, NoCandidatesMsg)
    [] resp = "abort" -> generateThrows(g, FetchAbortMsg)
    [] OTHER -> IF retryAllowed(g.retryCount)
                  THEN [g EXCEPT !.pc = "backoff"]
                  ELSE generateThrows(g, statusMsg(resp))

geminiFrame == UNCHANGED <<unitVars, now, ev, rlVars, cbVars, appVars>>

\* analyzeSong reaches withRetry: the first attempt sends the first fetch
StartAnalysis ==
  /\ gemini.pc = "idle"
  /\ gemini' = fetchAgain([gemini EXCEPT !.stage = "grounding"])
  /\ geminiFrame

HttpResponse(resp) ==
  /\ gemini.pc = "fetch"
  /\ gemini' = makeRequest([gemini EXCEPT !.only401 = @ /\ resp = "401"], resp)
  /\ geminiFrame

\* the backoff timer of makeRequest fires
BackoffEnds ==
  /\ gemini.pc = "backoff"
  /\ gemini' = fetchAgain([gemini EXCEPT !.retryCount = @ + 1])
  /\ geminiFrame

\* the makeRequest chain of a call given up on threw: generateWithGrounding
\* still falls back to generateContent, whose error nobody awaits
abandonedThrows(c) ==
  IF c.stage = "grounding"
    THEN [pc |-> "fetch", stage |-> "content", retryCount |-> 0]
    ELSE [c EXCEPT !.pc = "ended"]

\* withTimeout, lines 251-256: Promise.race rejects with the timeout message
\* and leaves the generateWithGrounding call running.  makeRequest set the
\* abort timer of the attempt's first fetch (line 273) before withTimeout set
\* its own, both to 30000 ms, so that fetch has been aborted when the race
\* rejects and the call has gone on to generateContent.
abandon(g) ==
  LET c == [pc |-> g.pc, stage |-> g.stage, retryCount |-> g.retryCount]
      first == c.pc = "fetch" /\ c.stage = "grounding" /\ c.retryCount = 0
  IN [g EXCEPT !.abandoned = Append(@, IF first THEN abandonedThrows(c) ELSE c)]

\* makeRequest of a call given up on when its fetch ends with resp
abandonedRequest(c, resp) ==
  CASE resp = "ok" -> [c EXCEPT !.pc = "ended"]
    [] resp \in {"empty", "abort"} -> abandonedThrows(c)
    [] OTHER -> IF retryAllowed(c.retryCount)
                  THEN [c EXCEPT !.pc = "backoff"]
                  ELSE abandonedThrows(c)

\* the fetch calls awaiting an answer: the one of the running attempt and
\* those of the calls given up on
inFlight(g) ==
  (IF g.pc = "fetch" THEN 1 ELSE 0)
    + Cardinality({i \in DOMAIN g.abandoned : g.abandoned[i].pc = "fetch"})

\* the 30-second timer of withTimeout fires first: the attempt rejects with
\* the timeout message (the requests the abandoned chain still sends are
\* not counted in fetches)
AttemptTimeout ==
  /\ gemini.pc \in {"fetch", "backoff"}
  /\ gemini' = withRetryCatch(abandon([gemini EXCEPT !.only401 = FALSE]),
                              TimedOutMsg)
  /\ geminiFrame

\* the fetch of a call given up on ends with resp
AbandonedResponse(i, resp) ==
  /\ i \in DOMAIN gemini.abandoned
  /\ gemini.abandoned[i].pc = "fetch"
  /\ gemini' = [gemini EXCEPT !.abandoned[i] = abandonedRequest(@, resp)]
  /\ geminiFrame

\* the backoff timer of makeRequest fires in a call given up on
AbandonedBackoffEnds(i) ==
  /\ i \in DOMAIN gemini.abandoned
  /\ gemini.abandoned[i].pc = "backoff"
  /\ gemini' = [gemini EXCEPT !.abandoned[i] =
                   [@ EXCEPT !.pc = "fetch", !.retryCount = @ + 1]]
  /\ geminiFrame

\* the backoff timer of withRetry fires: the next attempt starts
RetrySleepEnds ==
  /\ gemini.pc = "retrySleep"
  /\ gemini' = fetchAgain([gemini EXCEPT !.attempt = @ + 1,
                                         !.stage = "grounding",
                                         !.retryCount = 0])
  /\ geminiFrame

NextGemini ==
  \/ Tick
  \/ StartAnalysis
  \/ \E resp \in Responses : HttpResponse(resp)
  \/ BackoffEnds
  \/ AttemptTimeout
  \/ RetrySleepEnds
  \/ \E i \in 1..(maxRetries + 1), resp \in Responses : AbandonedResponse(i, resp)
  \/ \E i \in 1..(maxRetries + 1) : AbandonedBackoffEnds(i)

SpecGemini == Init /\ [][NextGemini]_vars


(***************************************************************************)
(* The in-memory cache on its own: set, get, has, delete and clear called  *)
(* at any times for any keys.  The response times kept in stats are left   *)
(* out.  ev records the call that ran last and the value it returned.      *)
(***************************************************************************)
CacheKeys == {<<c>> : c \in Lower}

CacheValue == [artist |-> <<"q">>, songTitle |-> <<"b">>, gen |-> 1]

CacheTTLs == {0, defaultTTL}

cacheFrame == UNCHANGED <<dbCalls, hits, strings, gemini, now, rlVars, cbVars,
                          pendingRequests, ops, db, req>>

CacheSet(key, ttl) ==
  /\ cache' = cacheSet(cache, key, CacheValue, ttl, now)
  /\ ev' = [type |-> "set", r |-> 0, key |-> key, data |-> NoData]
  /\ UNCHANGED stats
  /\ cacheFrame

CacheGet(key) ==
  /\ stats.totalRequests < MaxGets
  /\ LET got == cacheGet(cache, key, now)
     IN /\ cache' = got.cache
        /\ ev' = [type |-> "get", r |-> 0, key |-> key, data |-> got.data,
                  held |-> IF cacheIndex(cache, key) = 0 THEN <<>>
                           ELSE <<cache[cacheIndex(cache, key)]>>]
  /\ stats' = countGet(stats, cache, key, now)
  /\ cacheFrame

CacheHas(key) ==
  /\ LET got == cacheHas(cache, key, now)
     IN /\ cache' = got.cache
        /\ ev' = [type |-> "has", r |-> 0, key |-> key,
                  data |-> IF got.found THEN CacheValue ELSE NoData]
  /\ UNCHANGED stats
  /\ cacheFrame

CacheDelete(key) ==
  /\ cache' = cacheDelete(cache, key)
  /\ ev' = [type |-> "delete", r |-> 0, key |-> key, data |-> NoData]
  /\ UNCHANGED stats
  /\ cacheFrame

CacheClear ==
  /\ cache' = <<>>
  /\ stats' = resetStats
  /\ ev' = [type |-> "clear", r |-> 0, key |-> <<>>, data |-> NoData]
  /\ cacheFrame

NextCache ==
  \/ Tick
  \/ \E key \in CacheKeys, ttl \in CacheTTLs : CacheSet(key, ttl)
  \/ \E key \in CacheKeys : CacheGet(key)
  \/ \E key \in CacheKeys : CacheHas(key)
  \/ \E key \in CacheKeys : CacheDelete(key)
  \/ CacheClear

SpecCache == Init /\ [][NextCache]_vars

(***************************************************************************)
(* normalizeKey on its own: applied to two texts, and to its own result.   *)
(***************************************************************************)
TextChars == {"Q", "q", Space}

Texts == UNION {[1..n -> TextChars] : n \in 0..MaxLen}

InitStrings ==
  /\ InitState
  /\ strings \in {[NoText EXCEPT !.pc = "input", !.a = a, !.b = b] :
                     a \in Texts, b \in Texts}

stringsFrame == UNCHANGED <<stats, dbCalls, hits, gemini, now, ev, rlVars,
                            cbVars, appVars>>

Normalize ==
  /\ strings.pc = "input"
  /\ strings' = [strings EXCEPT !.pc = "once",
                                !.na = normalizeKey(strings.a),
                                !.nb = normalizeKey(strings.b)]
  /\ stringsFrame

NormalizeAgain ==
  /\ strings.pc = "once"
  /\ strings' = [strings EXCEPT !.pc = "twice",
                                !.nna = normalizeKey(strings.na)]
  /\ stringsFrame

NextStrings == Normalize \/ NormalizeAgain

SpecStrings == InitStrings /\ [][NextStrings]_vars

(***************************************************************************)
(* The persistent store on its own: calls of getCachedAnalysis,            *)
(* storeAnalysis, getAnalysisByShareId (directly, as the share page does,  *)
(* or through GET /api/share/[shareId]) and cleanupOldAnalyses, several of *)
(* them in flight at once.  Each query of a call is answered in a later    *)
(* turn of the event loop: with its result ("ok"), with an error object    *)
(* ("error"), or by a rejected promise ("reject").                         *)
(***************************************************************************)
ClientMissingMsg == "Database client not available"

InvalidShareIdMsg == "Invalid share ID format"

NotFoundMsg == "Share link not found"

QueryFailedMsg == "Database query failed"

StoreFailedMsg == "Failed to store analysis"

CleanupFailedMsg == "Cleanup failed"

NetworkMsg == "fetch failed"

Answers == {"ok", "error", "reject"}

StoreSongs == { [artist |-> <<"Q">>, songTitle |-> <<"B">>],
                [artist |-> <<"q">>, songTitle |-> [i \in 1..14 |-> "b"]],
                [artist |-> <<"x">>, songTitle |-> <<"!">>] }

ShareIds == {generateShareId(s.artist, s.songTitle) : s \in StoreSongs}
              \cup {<<Space>>}

\* return { success: false, error }
failure(msg) == [NoResult EXCEPT !.error = msg]

rethrown(msg) == [NoResult EXCEPT !.error = msg, !.threw = TRUE]

\* the catch block of each of the four functions
caught(msg) == [NoResult EXCEPT !.error = msg]

\* the result built from a record; buildShareUrl throws, inside the try
\* block, on a share id that is not well-formed
recordResult(shareId, analysisData, accessCount) ==
  IF isValidShareId(shareId)
    THEN [NoResult EXCEPT !.success = TRUE, !.hasData = TRUE,
                          !.data = analysisData, !.shareId = shareId,
                          !.accessCount = accessCount]
    ELSE caught(InvalidShareIdMsg)

\* route.ts line 18: !shareId || shareId.trim() === ''
shareIdMissing(shareId) == trim(shareId) = <<>>

\* route.ts line 29
shareIdAccepted(shareId) ==
  /\ Len(shareId) >= minShareIdLength
  /\ \A i \in 1..Len(shareId) :
       shareId[i] \in Upper \cup Lower \cup Digits \cup {"_", "-"}

\* route.ts lines 42-84: the HTTP status for the result of
\* getAnalysisByShareId
routeStatus(res) ==
  IF res.threw THEN 500
  ELSE IF ~res.success
    THEN IF res.error = NotFoundMsg THEN 404
         ELSE IF res.error = ClientMissingMsg THEN 503
         ELSE 500
  ELSE IF ~res.hasData THEN 404
  ELSE 200

rowIndex(rows, id) ==
  IF \E i \in 1..Len(rows) : rows[i].id = id
    THEN CHOOSE i \in 1..Len(rows) : rows[i].id = id
    ELSE 0

\* the call returns res; a call that came through the route is answered
\* with the status of res
return(call, res) ==
  [call EXCEPT !.pc = "done",
               !.res = IF call.viaRoute
                         THEN [res EXCEPT !.status = routeStatus(res)]
                         ELSE res]

storeFrame == UNCHANGED <<stats, strings, gemini, now, ev, rlVars, cbVars,
                          cache, pendingRequests, ops, req>>

callable(c) ==
  /\ dbCalls[c].pc = "idle"
  /\ IF c = 1 THEN TRUE ELSE dbCalls[c - 1].pc # "idle"

\* getCachedAnalysis, lines 64-82: up to the select
GetCachedAnalysis(c, song, client) ==
  /\ callable(c)
  /\ LET call == [IdleCall EXCEPT !.fn = "getCachedAnalysis",
                                  !.artist = song.artist,
                                  !.songTitle = song.songTitle]
     IN dbCalls' = [dbCalls EXCEPT ![c] =
          IF ~client
            THEN return([call EXCEPT !.trouble = "noClient"],
                        failure(ClientMissingMsg))
            ELSE [call EXCEPT !.pc = "select"]]
  /\ UNCHANGED <<db, hits>>
  /\ storeFrame

\* storeAnalysis, lines 147-178: up to the insert
StoreAnalysis(c, song, client) ==
  /\ callable(c)
  /\ LET call == [IdleCall EXCEPT !.fn = "storeAnalysis",
                                  !.artist = song.artist,
                                  !.songTitle = song.songTitle,
                                  !.analysisData =
                                     [artist |-> song.artist,
                                      songTitle |-> song.songTitle,
                                      gen |-> c]]
     IN dbCalls' = [dbCalls EXCEPT ![c] =
          IF ~client
            THEN return([call EXCEPT !.trouble = "noClient"],
                        failure(ClientMissingMsg))
            ELSE [call EXCEPT !.pc = "insert"]]
  /\ UNCHANGED <<db, hits>>
  /\ storeFrame

\* GET /api/share/[shareId], route.ts lines 15-40, when viaRoute, and
\* getAnalysisByShareId, lines 226-249: up to the select
GetAnalysisByShareId(c, shareId, viaRoute, client) ==
  /\ callable(c)
  /\ LET owners == {i \in 1..Len(db) : db[i].share_id = shareId}
         call == [IdleCall EXCEPT !.fn = "getAnalysisByShareId",
                                  !.viaRoute = viaRoute,
                                  !.shareId = shareId,
                                  !.startRow =
                                     IF owners = {} THEN 0
                                     ELSE db[CHOOSE i \in owners : TRUE].id]
     IN dbCalls' = [dbCalls EXCEPT ![c] =
          IF viaRoute /\ (shareIdMissing(shareId) \/ ~shareIdAccepted(shareId))
            THEN [call EXCEPT !.pc = "done", !.refused = TRUE,
                              !.res = [NoResult EXCEPT !.status = 400]]
          ELSE IF ~client
            THEN return([call EXCEPT !.trouble = "noClient"],
                        failure(ClientMissingMsg))
          ELSE IF shareIdMissing(shareId)
            THEN return(call, failure(InvalidShareIdMsg))
          ELSE [call EXCEPT !.pc = "select"]]
  /\ UNCHANGED <<db, hits>>
  /\ storeFrame

\* cleanupOldAnalyses, lines 357-375: up to the delete
CleanupOldAnalyses(c, daysOld, minAccessCount, client) ==
  /\ callable(c)
  /\ LET call == [IdleCall EXCEPT !.fn = "cleanupOldAnalyses",
                                  !.cutoff = now - daysOld,
                                  !.minAccessCount = minAccessCount]
     IN dbCalls' = [dbCalls EXCEPT ![c] =
          IF ~client
            THEN return([call EXCEPT !.trouble = "noClient"],
                        failure(ClientMissingMsg))
            ELSE [call EXCEPT !.pc = "delete"]]
  /\ UNCHANGED <<db, hits>>
  /\ storeFrame

\* the select of getCachedAnalysis (lines 84-114) or getAnalysisByShareId
\* (lines 251-281) answers; .single() answers PGRST116 unless exactly one
\* row matches.  On a row the access-count update is sent.
SelectAnswers(c, answer) ==
  /\ dbCalls[c].pc = "select"
  /\ LET call == dbCalls[c]
         byKey == call.fn = "getCachedAnalysis"
         matches == IF byKey
                      THEN rowsFor(db, call.artist, call.songTitle)
                      ELSE {i \in 1..Len(db) : db[i].share_id = call.shareId}
     IN dbCalls' = [dbCalls EXCEPT ![c] =
          IF answer = "reject"
            THEN return([call EXCEPT !.trouble = "queryReject"],
                        caught(NetworkMsg))
          ELSE IF answer = "error"
            THEN return([call EXCEPT !.trouble = "queryError"],
                        failure(QueryFailedMsg))
          ELSE IF Cardinality(matches) # 1
            THEN return([call EXCEPT !.noRow = TRUE],
                        IF byKey THEN [NoResult EXCEPT !.success = TRUE]
                        ELSE failure(NotFoundMsg))
          ELSE LET row == db[CHOOSE i \in matches : TRUE]
               IN [call EXCEPT !.pc = "update", !.rowId = row.id,
                               !.rowCount = row.access_count,
                               !.shareId = row.share_id,
                               !.analysisData = row.analysis_data]]
  /\ UNCHANGED <<db, hits>>
  /\ storeFrame

updateRewrites(rows, i, accessCount, t) ==
  [rows EXCEPT ![i].access_count = accessCount, ![i].updated_at = t,
               ![i].analysis_data = NoData]

\* update({ access_count, updated_at }).eq('id', data.id)
update(rows, i, accessCount, t) ==
  [rows EXCEPT ![i].access_count = accessCount, ![i].updated_at = t]

\* the update of access_count answers (lines 107-129 and 273-295); its
\* answer is not inspected
UpdateAnswers(c, answer) ==
  /\ dbCalls[c].pc = "update"
  /\ LET call == dbCalls[c]
         i == rowIndex(db, call.rowId)
         applied == answer = "ok" /\ i # 0
     IN /\ db' = IF applied THEN update(db, i, call.rowCount + 1, now) ELSE db
        /\ hits' = IF applied THEN [hits EXCEPT ![call.rowId] = @ + 1]
                   ELSE hits
        /\ dbCalls' = [dbCalls EXCEPT ![c] =
             IF answer = "reject"
               THEN return([call EXCEPT !.trouble = "updateReject"],
                           caught(NetworkMsg))
               ELSE return([call EXCEPT !.trouble =
                                           IF answer = "error"
                                             THEN "updateError" ELSE "none"],
                           recordResult(call.shareId, call.analysisData,
                                        call.rowCount + 1))]
  /\ storeFrame

\* the insert of storeAnalysis answers (lines 174-208)
InsertAnswers(c, answer) ==
  /\ dbCalls[c].pc = "insert"
  /\ LET call == dbCalls[c]
         shareId == generateShareId(call.artist, call.songTitle)
         inserted == answer = "ok" /\ ~shareIdTaken(db, shareId)
         row == [id |-> Len(hits) + 1, share_id |-> shareId,
                 normalized_artist |-> normalizeKey(call.artist),
                 normalized_title |-> normalizeKey(call.songTitle),
                 analysis_data |-> call.analysisData, access_count |-> 1,
                 created_at |-> now, updated_at |-> now]
     IN /\ db' = IF inserted THEN Append(db, row) ELSE db
        /\ hits' = IF inserted THEN Append(hits, 0) ELSE hits
        /\ dbCalls' = [dbCalls EXCEPT ![c] =
             IF answer = "reject"
               THEN return([call EXCEPT !.trouble = "queryReject"],
                           caught(NetworkMsg))
             ELSE IF ~inserted
               THEN return([call EXCEPT !.trouble = "queryError"],
                           failure(StoreFailedMsg))
             ELSE return(call, recordResult(row.share_id, row.analysis_data,
                                            row.access_count))]
  /\ storeFrame

\* the delete of cleanupOldAnalyses answers (lines 369-391)
DeleteAnswers(c, answer) ==
  /\ dbCalls[c].pc = "delete"
  /\ LET call == dbCalls[c]
         doomed(row) == /\ row.created_at < call.cutoff
                        /\ row.access_count < call.minAccessCount
         kept == SelectSeq(db, LAMBDA row : ~doomed(row))
     IN /\ db' = IF answer = "ok" THEN kept ELSE db
        /\ dbCalls' = [dbCalls EXCEPT ![c] =
             IF answer = "reject"
               THEN return([call EXCEPT !.trouble = "queryReject"],
                           caught(NetworkMsg))
             ELSE IF answer = "error"
               THEN return([call EXCEPT !.trouble = "queryError"],
                           failure(CleanupFailedMsg))
             ELSE return(call, [NoResult EXCEPT !.success = TRUE,
                                                !.hasData = TRUE,
                                                !.deleted = Len(db) - Len(kept)])]
  /\ UNCHANGED hits
  /\ storeFrame

NextStore ==
  \/ Tick
  \/ \E c \in Callers, song \in StoreSongs, client \in BOOLEAN :
       GetCachedAnalysis(c, song, client)
  \/ \E c \in Callers, song \in StoreSongs, client \in BOOLEAN :
       StoreAnalysis(c, song, client)
  \/ \E c \in Callers, shareId \in ShareIds, viaRoute \in BOOLEAN,
        client \in BOOLEAN :
       GetAnalysisByShareId(c, shareId, viaRoute, client)
  \/ \E c \in Callers, daysOld \in {1}, minAccessCount \in 1..2,
        client \in BOOLEAN :
       CleanupOldAnalyses(c, daysOld, minAccessCount, client)
  \/ \E c \in Callers, answer \in Answers : SelectAnswers(c, answer)
  \/ \E c \in Callers, answer \in Answers : UpdateAnswers(c, answer)
  \/ \E c \in Callers, answer \in Answers : InsertAnswers(c, answer)
  \/ \E c \in Callers, answer \in Answers : DeleteAnswers(c, answer)

SpecStore == Init /\ [][NextStore]_vars

(***************************************************************************)
(* getCacheKey on its own: applied to the (artist, songTitle) pairs of two *)
(* requests.  validateRequest lets through pairs of non-empty strings.     *)
(***************************************************************************)
KeyChars == {"Q", "q", "-"}

KeyTexts == UNION {[1..n -> KeyChars] : n \in 1..MaxKeyLen}

InitKeys ==
  /\ InitState
  /\ strings \in {[NoText EXCEPT !.pc = "pairs", !.a = <<a1, t1>>,
                                  !.b = <<a2, t2>>] :
                     a1 \in KeyTexts, t1 \in KeyTexts,
                     a2 \in KeyTexts, t2 \in KeyTexts}

GetCacheKeys ==
  /\ strings.pc = "pairs"
  /\ strings' = [strings EXCEPT
                   !.pc = "keys",
                   !.na = getCacheKey(strings.a[1], strings.a[2]),
                   !.nb = getCacheKey(strings.b[1], strings.b[2])]
  /\ stringsFrame

NextKeys == GetCacheKeys

SpecKeys == InitKeys /\ [][NextKeys]_vars

(***************************************************************************)
(* Properties.                                                             *)
(***************************************************************************)
inFlightOp(o) == ops[o].status \in {"attempt", "sleep", "rejected"}

resumed(r) == req[r].recv.settled

\* C1: analyzeSong calls for one cache key that miss the in-memory cache
\* while an operation for the key is in flight join that operation and start
\* none of their own, so that at most one operation per key is in flight;
\* every caller of an operation receives that operation's outcome: its
\* result when it succeeded, its error when it failed.
C1_Deduplicated ==
  /\ \A r \in Req :
       req[r].inFlight # 0 =>
         req[r].op = req[r].inFlight /\ ~req[r].started /\ ops[r] = NoOp
  /\ \A o1, o2 \in Req :
       inFlightOp(o1) /\ inFlightOp(o2) /\ ops[o1].key = ops[o2].key => o1 = o2
  /\ \A r \in Req :
       req[r].op # 0 /\ resumed(r) =>
         LET o == req[r].op
         IN \/ /\ ops[o].status = "ok"
               /\ req[r].recv.ok
               /\ req[r].fresh = [artist |-> ops[o].artist,
                                  songTitle |-> ops[o].songTitle, gen |-> o]
            \/ /\ ops[o].status = "failed"
               /\ ~req[r].recv.ok
               /\ req[r].recv.code = ops[o].code
  /\ \A r \in Req :
       req[r].op # 0 /\ ~resumed(r) => inFlightOp(req[r].op)

C1_Witness ==
  \E r1, r2 \in Req :
    /\ r1 # r2
    /\ req[r1].op = r1 /\ req[r2].joined /\ req[r2].op = r1
    /\ resumed(r1) /\ resumed(r2)
    /\ req[r2].recv = req[r1].recv

C5_StoreFailureIsolated ==
  \A r \in Req :
    /\ req[r].lookup = "fail" => req[r].memAccess
    /\ req[r].pc = "done" /\ req[r].storeRes = "fail" =>
         /\ req[r].status = 200 /\ req[r].success /\ ~req[r].fromCache
         /\ req[r].shareId = NoShare
         /\ req[r].data = req[r].fresh

C5_Witness ==
  \E r \in Req :
    /\ req[r].lookup = "fail" /\ req[r].recv.ok
    /\ req[r].pc = "done" /\ req[r].storeRes = "fail"
    /\ req[r].status = 200

\* C6: a checkLimit call is allowed exactly when it is among the first
\* maxRequests calls of the identity's window, a denied call has
\* remaining = 0, and the first call at or after the window's reset time
\* opens a new window and is allowed.
C6_WindowQuota ==
  ev.type = "checkLimit" =>
    LET id == lastCheck.id
    IN /\ lastCheck.allowed <=> winCalls[id] <= maxRequests
       /\ ~lastCheck.allowed => lastCheck.remaining = 0
       /\ lastCheck.allowed => lastCheck.remaining = maxRequests - winCalls[id]
       /\ lastCheck.resetTime = winStart[id] + windowMs

C6_Witness ==
  /\ ev.type = "checkLimit"
  /\ lastCheck.allowed
  /\ lastCheck.id \in everDenied
  /\ winCalls[lastCheck.id] = 1

\* C7: a request answered from the persistent store does not consume the
\* client's quota, and no request for a song with a stored record is
\* refused with 429.
C7_CachedBypassesLimit ==
  \A r \in Req :
    /\ req[r].pc = "done" /\ req[r].fromCache => ~req[r].consumed
    /\ req[r].status = 429 => ~req[r].recordAtStart

C9_GetStatusReadOnly ==
  [][(\E ip \in IPs : GetStatus(ip)) => requests' = requests]_vars

C9_Witness ==
  /\ ev.type = "getStatus"
  /\ lastStatus.id \in DOMAIN requests
  /\ now >= requests[lastStatus.id].resetTime
  /\ requests[lastStatus.id].count > 0

\* C10: the failure that completes failureThreshold consecutive failed
\* operations leaves the breaker OPEN, and the execute call that comes next,
\* before the recovery timeout has elapsed, is rejected without invoking its
\* operation.
C10_OpensAfterThreshold ==
  [][/\ (\E e \in 1..MaxExec : OperationFail(e)) /\ consecFail' >= failureThreshold
          => breaker'.state = "OPEN"
     /\ \A e \in 1..MaxExec :
          /\ Execute(e)
          /\ consecFail >= failureThreshold
          /\ now - breaker.lastFailureTime <= recoveryTimeout
          => execs'[e] = "rejected" /\ breaker'.state = "OPEN"]_vars

C10_Witness ==
  /\ ev.type = "execute"
  /\ execs[ev.r] = "rejected"
  /\ consecFail >= failureThreshold
  /\ breaker.state = "OPEN"

\* C11 as claimed: an OPEN breaker stays OPEN and rejects every execute call
\* until recoveryTimeout has elapsed since the last recorded failure, and it
\* leaves OPEN only by the HALF_OPEN transition of an execute call made after
\* the timeout, whatever operations admitted earlier complete meanwhile.
C11_StaysOpenUntilTimeout ==
  [][breaker.state = "OPEN" =>
       IF now - breaker.lastFailureTime <= recoveryTimeout
         THEN /\ breaker'.state = "OPEN"
              /\ \A e \in 1..MaxExec : Execute(e) => execs'[e] = "rejected"
         ELSE \/ breaker'.state = "OPEN"
              \/ /\ breaker'.state = "HALF_OPEN"
                 /\ \E e \in 1..MaxExec : Execute(e)]_vars

\* C12 as claimed: while the operation admitted as the HALF_OPEN trial is in
\* flight and the breaker is HALF_OPEN, every other execute call is rejected
\* without invoking its operation.
C12_SingleTrial ==
  [][\A e \in 1..MaxExec :
       /\ Execute(e)
       /\ \E t \in 1..MaxExec : halfOpenTrial(t)
       => execs'[e] = "rejected"]_vars

\* C13: when the HALF_OPEN trial succeeds the breaker becomes CLOSED with
\* failures = 0; when it fails the breaker becomes OPEN with lastFailureTime
\* the time of the failure, and an execute call made while the breaker is
\* OPEN and no more than recoveryTimeout after that time is rejected and
\* leaves the breaker as it is.
C13_TrialOutcome ==
  [][\A e \in 1..MaxExec :
       /\ OperationOk(e) /\ halfOpenTrial(e) =>
            breaker'.state = "CLOSED" /\ breaker'.failures = 0
       /\ OperationFail(e) /\ halfOpenTrial(e) =>
            breaker'.state = "OPEN" /\ breaker'.lastFailureTime = now
       /\ /\ Execute(e)
          /\ breaker.state = "OPEN"
          /\ now - breaker.lastFailureTime <= recoveryTimeout
          => execs'[e] = "rejected" /\ breaker' = breaker]_vars

C13_Witness ==
  /\ ev.type = "trialFail"
  /\ breaker.state = "OPEN"
  /\ breaker.lastFailureTime = now
  /\ now > recoveryTimeout

\* C14: withRetry never invokes its operation more than maxRetries + 1 times,
\* and when it throws an error classified as retryable (every attempt failed
\* with a retryable error) it has invoked the operation exactly
\* maxRetries + 1 times, slept maxRetries times and thrown the classified
\* error of the last attempt.
C14_RetriesExactly ==
  \A o \in Req :
    /\ ops[o].calls <= maxRetries + 1
    /\ ops[o].calls > 0 => ops[o].calls = ops[o].attempt + 1
    /\ ops[o].status = "failed" /\ ops[o].calls > 0 /\ ops[o].retryable =>
         /\ ops[o].calls = maxRetries + 1
         /\ ops[o].attempt = maxRetries
         /\ ops[o].code \in {"NETWORK_ERROR", "TIMEOUT_ERROR", "RATE_LIMIT_ERROR",
                             "SERVER_ERROR", "AI_SERVICE_ERROR", "UNKNOWN_ERROR"}

C14_Witness ==
  \E o \in Req :
    /\ ops[o].status = "failed" /\ ops[o].retryable
    /\ ops[o].calls = maxRetries + 1
    /\ ops[o].code = "SERVER_ERROR"

\* C15: when the first attempt of withRetry fails with an error classified
\* as non-retryable (AUTH_ERROR), withRetry throws that classified error at
\* once: the operation was invoked once, no backoff sleep is started and no
\* further attempt follows.
C15_NonRetryableOnce ==
  [][\A o \in Req, m \in UpstreamErrors :
       /\ AttemptFail(o, m)
       /\ ops[o].attempt = 0
       /\ ~classifyError(m).retryable
       => /\ classifyError(m).code = "AUTH_ERROR"
          /\ ops'[o].status = "failed"
          /\ ops'[o].code = "AUTH_ERROR"
          /\ ops'[o].calls = 1
          /\ ops'[o].attempt = 0
          /\ o \notin {pendingRequests'[k] : k \in DOMAIN pendingRequests'}]_vars

C15_Witness ==
  \E o \in Req :
    /\ ops[o].status = "failed" /\ ops[o].code = "AUTH_ERROR"
    /\ ops[o].calls = 1 /\ ops[o].attempt = 0

\* C17 as claimed: when every attempt of an analysis ended by the 30-second
\* timeout, every caller of the analysis receives the fallback analysis
\* (success = true, fallback = true) and not a failure.
C17_TimeoutsGiveFallback ==
  \A r \in Req :
    LET o == req[r].op
    IN o # 0 /\ resumed(r) /\ ops[o].status = "failed"
         /\ ops[o].calls = maxRetries + 1 /\ ops[o].timedOut = ops[o].calls
       => req[r].fallback /\ req[r].status # 500

\* C18 as claimed: a request that missed both cache tiers and whose execute
\* call was rejected by the open breaker is answered with status 503.
C18_BreakerOpenIs503 ==
  \A r \in Req :
    LET o == req[r].op
    IN o # 0 /\ req[r].pc = "done" /\ ops[o].status = "failed"
         /\ ops[o].calls = 0
       => req[r].status = 503

\* C19 as claimed: when storeAnalysis derives a share id that a record of a
\* different normalized (artist, title) owns, it picks another share id and
\* stores the new record with access count 1.
C19_CollisionDisambiguated ==
  \A r \in Req :
    req[r].pc = "done" /\ req[r].conflict = "other" =>
      /\ req[r].storeRes = "ok"
      /\ \E i \in rowsFor(db, req[r].fresh.artist, req[r].fresh.songTitle) :
           /\ db[i].share_id = req[r].shareId
           /\ db[i].share_id # generateShareId(req[r].fresh.artist,
                                               req[r].fresh.songTitle)

\* C20: no two rows of song_analyses have the same share id.
C20_ShareIdUnique ==
  \A i, j \in 1..Len(db) : db[i].share_id = db[j].share_id => i = j

C20_Witness ==
  \E r \in Req :
    /\ req[r].pc = "done" /\ req[r].conflict # "none"
    /\ req[r].storeRes = "fail"
    /\ \E i \in 1..Len(db) :
         db[i].share_id = generateShareId(req[r].fresh.artist,
                                          req[r].fresh.songTitle)

\* C16 as claimed: an analysis whose every upstream HTTP response is 401
\* sends exactly one HTTP request and ends with a failure result.
C16_AuthNotRetried ==
  gemini.pc = "done" /\ gemini.only401 =>
    /\ gemini.fetches = 1
    /\ gemini.result # "ok" /\ ~fallbackEligible(gemini.result)

\* C21: once every analyze request has completed, the persistent store holds
\* at most one row per normalized (artist, title), whatever the interleaving
\* of the requests, concurrent first requests for one song included.
C21_OneRecordPerSong ==
  (\A r \in Req : req[r].pc \in {"idle", "done"}) =>
    \A s \in Songs : Cardinality(rowsFor(db, s.artist, s.songTitle)) <= 1

C21_Witness ==
  \E r1, r2 \in Req :
    /\ r1 # r2
    /\ req[r1].pc = "done" /\ req[r2].pc = "done"
    /\ req[r1].lookup = "miss" /\ req[r2].lookup = "miss"
    /\ normalizeKey(req[r1].artist) = normalizeKey(req[r2].artist)
    /\ normalizeKey(req[r1].songTitle) = normalizeKey(req[r2].songTitle)
    /\ req[r1].storeRes = "ok" /\ req[r2].conflict = "same"
    /\ Cardinality(rowsFor(db, req[r1].artist, req[r1].songTitle)) = 1

\* C28: the pending map holds a key exactly while the operation deduplicate
\* started for it is in flight: the entry is removed when the operation
\* settles, with success or with failure, and a deduplicate call that finds
\* no operation of its key in flight starts a new one.
C28_PendingWhileInFlight ==
  [][/\ \A k \in DOMAIN pendingRequests' :
          /\ ops'[pendingRequests'[k]].status \in {"attempt", "sleep", "rejected"}
          /\ ops'[pendingRequests'[k]].key = k
     /\ \A o \in Req :
          ops'[o].status \in {"attempt", "sleep", "rejected"} =>
            /\ ops'[o].key \in DOMAIN pendingRequests'
            /\ pendingRequests'[ops'[o].key] = o
     /\ \A r \in Req :
          ~req[r].memAccess /\ req'[r].memAccess /\ ~req'[r].memHit =>
            LET k == getCacheKey(req'[r].artist, req'[r].songTitle)
                flying == {o \in Req : inFlightOp(o) /\ ops[o].key = k}
            IN IF flying = {}
                 THEN /\ req'[r].op = r
                      /\ ops'[r].key = k /\ ops[r] = NoOp /\ ops'[r] # NoOp
                 ELSE req'[r].op \in flying /\ ops'[r] = NoOp]_vars

C28_Witness ==
  \E r1, r2 \in Req :
    /\ r1 # r2
    /\ ops[r1].status \in {"ok", "failed"}
    /\ inFlightOp(r2) /\ ops[r2].key = ops[r1].key
    /\ req[r2].op = r2
    /\ pendingRequests[ops[r2].key] = r2

\* C26 as claimed: the in-memory cache never holds more than maxSize entries,
\* whatever set, get, has, delete and clear calls are made and at whatever
\* times.
C26_CacheBounded == cacheSize(cache) <= maxSize

\* C29 as claimed: a set into a cache that holds maxSize entries first
\* removes every entry whose age exceeds its ttl and, when maxSize entries
\* are left, removes exactly one entry, one of least lastAccessed among the
\* entries left; then it writes the entry of its key.
C29_PurgeThenEvictLRU ==
  [][ev'.type = "set" /\ now' = now /\ Len(cache) >= maxSize =>
       LET key == ev'.key
           others(c) == SelectSeq(c, LAMBDA e : e.key # key)
           purged == SelectSeq(cache,
                               LAMBDA e : ~(now - e.timestamp > e.ttl))
       IN /\ cacheIndex(cache', key) # 0
          /\ IF Len(purged) < maxSize
               THEN others(cache') = others(purged)
               ELSE \E i \in 1..Len(purged) :
                      /\ \A j \in 1..Len(purged) :
                           purged[i].lastAccessed <= purged[j].lastAccessed
                      /\ others(cache') = others(removeAt(purged, i))]_vars

\* C30: a get on an entry whose age exceeds its ttl returns null, removes the
\* entry and counts a miss and no hit; whatever get returns is the data of
\* an entry whose age does not exceed its ttl.
C30_ExpiredGetMisses ==
  [][stats'.totalRequests = stats.totalRequests + 1 =>
       LET i == cacheIndex(cache, ev'.key)
       IN /\ ev'.type = "get"
          /\ (i # 0 /\ now - cache[i].timestamp > cache[i].ttl) =>
               /\ ev'.data = NoData
               /\ cacheIndex(cache', ev'.key) = 0
               /\ stats'.totalMisses = stats.totalMisses + 1
               /\ stats'.totalHits = stats.totalHits
          /\ ev'.data # NoData =>
               /\ i # 0
               /\ now - cache[i].timestamp <= cache[i].ttl
               /\ ev'.data = cache[i].data]_vars

C30_Witness ==
  /\ ev.type = "get" /\ ev.held # <<>>
  /\ now - ev.held[1].timestamp > ev.held[1].ttl
  /\ ev.data = NoData
  /\ cacheIndex(cache, ev.key) = 0
  /\ stats.totalMisses >= 1

\* C24: normalizeKey is idempotent: applied to its own result it returns that
\* result.
C24_Idempotent == strings.pc = "twice" => strings.nna = strings.na

C24_Witness ==
  /\ strings.pc = "twice"
  /\ strings.na # strings.a /\ strings.na # <<>>
  /\ strings.nna = strings.na

\* C25 as claimed: two texts that differ only in letter case and in the
\* amount of whitespace (leading, trailing, and the lengths of the runs of
\* spaces inside) have the same normalizeKey.
C25_Original ==
  LET squeeze(s) ==
        LET one == replaceRuns(s, {Space}, Space)
            left == IF one # <<>> /\ Head(one) = Space THEN Tail(one) ELSE one
            both == IF left # <<>> /\ left[Len(left)] = Space
                      THEN SubSeq(left, 1, Len(left) - 1) ELSE left
        IN [i \in 1..Len(both) |-> toLowerChar(both[i])]
  IN strings.pc # "input" /\ squeeze(strings.a) = squeeze(strings.b)
       => strings.na = strings.nb

\* C25: two texts have the same normalizeKey exactly when they differ only
\* in letter case and in leading and trailing spaces; the spaces inside a
\* text are kept as they are.
C25_CaseAndEdgeSpaces ==
  LET core(s) ==
        LET inked == {i \in 1..Len(s) : s[i] # Space}
        IN IF inked = {} THEN <<>>
           ELSE SubSeq(s, CHOOSE i \in inked : \A j \in inked : i <= j,
                          CHOOSE i \in inked : \A j \in inked : i >= j)
      sameLetters(x, y) ==
        /\ Len(x) = Len(y)
        /\ \A i \in 1..Len(x) : toLowerChar(x[i]) = toLowerChar(y[i])
  IN strings.pc # "input" =>
       (strings.na = strings.nb
          <=> sameLetters(core(strings.a), core(strings.b)))

C25_Witness ==
  /\ strings.pc # "input"
  /\ strings.a # strings.b /\ Len(strings.a) # Len(strings.b)
  /\ \E i \in 1..Len(strings.a) : strings.a[i] \in Upper
  /\ strings.b # <<>> /\ Head(strings.b) = Space
  /\ strings.na = strings.nb /\ strings.na # <<>>

\* C22 as claimed: every share id that storeAnalysis returns with success
\* passes the format check of GET /api/share/[shareId], and a request for it
\* through that route, made while the row is stored and with its queries
\* answered, is answered 200 with the analysis that was stored.
C22_ShareRoundTrip ==
  /\ \A c \in Callers :
       /\ dbCalls[c].fn = "storeAnalysis" /\ dbCalls[c].pc = "done"
       /\ dbCalls[c].res.success
       => /\ ~shareIdMissing(dbCalls[c].res.shareId)
          /\ shareIdAccepted(dbCalls[c].res.shareId)
  /\ \A c \in Callers :
       /\ dbCalls[c].fn = "getAnalysisByShareId" /\ dbCalls[c].pc = "done"
       /\ dbCalls[c].viaRoute
       /\ dbCalls[c].startRow # 0 /\ rowIndex(db, dbCalls[c].startRow) # 0
       /\ dbCalls[c].trouble \in {"none", "updateError"}
       => /\ dbCalls[c].res.status = 200
          /\ dbCalls[c].res.data =
               db[rowIndex(db, dbCalls[c].startRow)].analysis_data

\* C23 as claimed: a row is inserted with access_count 1, and when no call
\* is in flight the access_count of every row is 1 plus the number of hits
\* on the row (calls of getCachedAnalysis and getAnalysisByShareId that
\* found the row and whose update was acknowledged), in whatever order the
\* queries of concurrent calls were answered.
C23_AccessCount ==
  (\A c \in Callers : dbCalls[c].pc \in {"idle", "done"}) =>
    \A i \in 1..Len(db) : db[i].access_count = 1 + hits[db[i].id]

\* C27 as claimed: no call of the four functions throws; a call without a
\* client, or one of whose queries answered with an error or not at all,
\* returns success = false with an error message; a getCachedAnalysis call
\* whose select found no row returns success = true without data.
C27_Original ==
  \A c \in Callers :
    dbCalls[c].pc = "done" /\ ~dbCalls[c].refused =>
      /\ ~dbCalls[c].res.threw
      /\ dbCalls[c].trouble # "none" =>
           ~dbCalls[c].res.success /\ dbCalls[c].res.error # ""
      /\ dbCalls[c].fn = "getCachedAnalysis" /\ dbCalls[c].noRow =>
           dbCalls[c].res.success /\ ~dbCalls[c].res.hasData

\* C27: no call of the four functions throws; a call without a client, one
\* whose select, insert or delete answered with an error or not at all, and
\* one whose access-count update was not answered return success = false
\* with an error message; an error answer of the access-count update is
\* ignored, the call returning the row it read; a getCachedAnalysis call
\* whose select found no row returns success = true without data.
C27_NeverThrows ==
  \A c \in Callers :
    dbCalls[c].pc = "done" /\ ~dbCalls[c].refused =>
      /\ ~dbCalls[c].res.threw
      /\ dbCalls[c].trouble \notin {"none", "updateError"} =>
           ~dbCalls[c].res.success /\ dbCalls[c].res.error # ""
      /\ dbCalls[c].trouble = "updateError"
           /\ isValidShareId(dbCalls[c].shareId) =>
           /\ dbCalls[c].res.success /\ dbCalls[c].res.hasData
           /\ dbCalls[c].res.accessCount = dbCalls[c].rowCount + 1
      /\ dbCalls[c].fn = "getCachedAnalysis" /\ dbCalls[c].noRow =>
           dbCalls[c].res.success /\ ~dbCalls[c].res.hasData

C27_Witness ==
  \E c1, c2, c3 \in Callers :
    /\ dbCalls[c1].pc = "done" /\ dbCalls[c1].fn = "storeAnalysis"
    /\ dbCalls[c1].trouble = "none" /\ dbCalls[c1].res.error = InvalidShareIdMsg
    /\ dbCalls[c2].pc = "done" /\ dbCalls[c2].fn = "getCachedAnalysis"
    /\ dbCalls[c2].trouble = "queryReject" /\ ~dbCalls[c2].res.success
    /\ dbCalls[c3].pc = "done" /\ dbCalls[c3].fn = "getCachedAnalysis"
    /\ dbCalls[c3].noRow /\ dbCalls[c3].res.success

\* C34: in every state of the circuit breaker, with any number of
\* operations in flight and settling in any order, state = OPEN implies
\* failures >= failureThreshold and state = CLOSED implies
\* failures < failureThreshold.
C34_StateMatchesFailures ==
  /\ breaker.state = "OPEN" => breaker.failures >= failureThreshold
  /\ breaker.state = "CLOSED" => breaker.failures < failureThreshold

C34_Witness ==
  /\ breaker.state = "OPEN" /\ breaker.failures >= failureThreshold
  /\ \E e1, e2 \in 1..MaxExec :
       execs[e1] = "running" /\ execs[e2] = "ok"

\* C35: an execute call that is rejected because the breaker is OPEN leaves
\* failures, lastFailureTime and state as they were.
C35_RejectionLeavesBreaker ==
  [][\A e \in 1..MaxExec :
       execs[e] = "none" /\ execs'[e] = "rejected" => breaker' = breaker]_vars

C35_Witness ==
  \E e \in 1..MaxExec :
    /\ execs[e] = "rejected" /\ ev = [type |-> "execute", r |-> e]
    /\ breaker.state = "OPEN" /\ now > breaker.lastFailureTime

\* C36: a checkLimit call that is denied while the window of its identity
\* has not expired leaves the whole map of the limiter as it was: the count
\* and the resetTime of the identity, and the entries of all others.
C36_DeniedLeavesWindow ==
  [][/\ now' = now /\ ev'.type = "checkLimit" /\ ~lastCheck'.allowed
     /\ lastCheck'.id \in DOMAIN requests
     /\ now < requests[lastCheck'.id].resetTime
     => requests' = requests]_vars

C36_Witness ==
  /\ ev.type = "checkLimit" /\ ~lastCheck.allowed
  /\ lastCheck.id \in DOMAIN requests
  /\ now < requests[lastCheck.id].resetTime
  /\ winCalls[lastCheck.id] > maxRequests
  /\ requests[lastCheck.id].count = maxRequests
  /\ \E id \in DOMAIN requests : id # lastCheck.id

\* C40 as claimed: a set for a key that is stored, into a cache that holds
\* maxSize entries none of which is older than its ttl, replaces the entry
\* of the key and nothing else: every other entry stays and the number of
\* entries is the same.
C40_OverwriteOnlyReplaces ==
  [][/\ ev'.type = "set" /\ now' = now
     /\ Len(cache) >= maxSize
     /\ cacheIndex(cache, ev'.key) # 0
     /\ \A i \in 1..Len(cache) : now - cache[i].timestamp <= cache[i].ttl
     => /\ Len(cache') = Len(cache)
        /\ \A i \in 1..Len(cache) :
             cache[i].key # ev'.key =>
               \E j \in 1..Len(cache') : cache'[j] = cache[i]]_vars

\* C32 as claimed: the fallback placeholder that analyzeSong returns after a
\* failed upstream call (gen = 0 in the model) is never written to
\* song_analyses, and no request is answered from the store with it.
C32_FallbackNotPersisted ==
  /\ \A i \in 1..Len(db) : db[i].analysis_data.gen # 0
  /\ \A r \in Req :
       req[r].pc = "done" /\ req[r].fromCache => req[r].data.gen # 0

\* C31: a step of a getCachedAnalysis or getAnalysisByShareId call leaves
\* the rows of song_analyses in place, none inserted and none deleted, and
\* changes of a row nothing but access_count and updated_at.
C31_HitsOnlyBump ==
  [][(\E c \in Callers :
        /\ dbCalls'[c] # dbCalls[c]
        /\ dbCalls'[c].fn \in {"getCachedAnalysis", "getAnalysisByShareId"})
     => /\ Len(db') = Len(db)
        /\ \A i \in 1..Len(db) :
             [db'[i] EXCEPT !.access_count = db[i].access_count,
                            !.updated_at = db[i].updated_at] = db[i]]_vars

C31_Witness ==
  \E c \in Callers, i \in 1..Len(db) :
    /\ dbCalls[c].pc = "done"
    /\ dbCalls[c].fn \in {"getCachedAnalysis", "getAnalysisByShareId"}
    /\ dbCalls[c].res.success /\ dbCalls[c].res.hasData
    /\ db[i].id = dbCalls[c].rowId
    /\ hits[db[i].id] >= 1
    /\ db[i].access_count = dbCalls[c].rowCount + 1
    /\ db[i].updated_at > db[i].created_at
    /\ db[i].analysis_data = dbCalls[c].res.data

\* C33 as claimed: two requests whose lowercased, trimmed (artist, title)
\* pairs differ have different getCacheKey values.
C33_KeyInjective ==
  strings.pc = "keys"
    /\ <<trim(toLowerCase(strings.a[1])), trim(toLowerCase(strings.a[2]))>>
         # <<trim(toLowerCase(strings.b[1])), trim(toLowerCase(strings.b[2]))>>
    => strings.na # strings.nb

\* C37: when a deduplicated upstream operation fails, the circuit breaker
\* counts one failure, however many analyzeSong calls await the operation.
C37_OneFailurePerOperation ==
  [][\A o \in Req :
       ops[o].status = "attempt" /\ ops'[o].status = "failed"
         => breaker'.failures = breaker.failures + 1]_vars

C37_Witness ==
  \E o, r1, r2 \in Req :
    /\ r1 # r2
    /\ ops[o].status = "failed" /\ ops[o].calls >= 1
    /\ req[r1].op = o /\ req[r2].op = o /\ req[r2].joined
    /\ resumed(r1) /\ resumed(r2)
    /\ ~req[r1].recv.ok /\ ~req[r2].recv.ok
    /\ breaker.failures = 1

\* C38: at most one upstream request of an analysis is in flight at any time,
\* and none is in flight once the analysis has returned: a call given up on
\* by the 30-second timeout no longer runs when the next attempt starts.
C38_OneUpstreamRequest ==
  /\ inFlight(gemini) <= 1
  /\ gemini.pc = "done" => inFlight(gemini) = 0

\* C39: assuming the timers fire, every analyzeSong call that awaits an
\* operation eventually returns, and every key put into pendingRequests is
\* eventually removed from it, whether or not the upstream ever answers.
C39_EventuallyReturns ==
  /\ \A r \in Req : (req[r].pc = "await") ~> resumed(r)
  /\ \A o \in Req :
       (pendingFor(pendingRequests, ops[o].key) = o)
         ~> (ops[o].key \notin DOMAIN pendingRequests)

C39_Witness ==
  \E o, r \in Req :
    /\ ops[o].status = "failed" /\ ops[o].timedOut = maxRetries + 1
    /\ ops[o].key \notin DOMAIN pendingRequests
    /\ r # o /\ req[r].op = o /\ req[r].joined
    /\ resumed(r) /\ resumed(o)

====
